---- MODULE Spec2Model ----
(***************************************************************************)
(* Hospital backend: doctor/patient association ledger, note access and    *)
(* the role checks in front of them.                                       *)
(*                                                                         *)
(* Spec      every handler is one atomic step (one request at a time).     *)
(* SpecNotes the notes interface, one request at a time.                   *)
(* SpecConc  requests run concurrently and interleave at the granularity   *)
(*           of database statements; a commit is atomic.                   *)
(* SpecAuth  signup, login, the clock, and the protected handlers called   *)
(*           with the token login issued.                                  *)
(* SpecGate  the protected handlers called with every kind of credentials. *)
(***************************************************************************)
EXTENDS Bags, FiniteSets, Integers, Sequences, TLC

VARIABLES
    users,          \* table "users": id -> [email, role]
    patientdoctor,  \* table "patientdoctor": bag of [patient_id, doctor_id, assigned_at]
    notes,          \* table "notes": sequence of [id, doctor_id, patient_id, encrypted_content]
    resp,           \* the last request served by an atomic handler, with its response
    pc,             \* SpecConc: position of every in-flight request
    req,            \* SpecConc: arguments, locals and outcome of every request
    now,            \* the clock, in minutes
    tokens,         \* the access token the client holds: the last one login issued
    auth            \* the credentials of the last request and what they resolved to

vars == <<users, patientdoctor, notes, resp, pc, req, now, tokens, auth>>
authvars == <<now, tokens, auth>>

(* ------------------------------ bounds --------------------------------- *)
MaxIds == 2         \* longest doctor_ids list of a request
MaxNotes == 1       \* notes ever created
MaxTicks == 4       \* times the clock advances
MaxStored == 11     \* notes in the table when pages are read

(* ---------------------------- populations ------------------------------ *)
Doctor == "Doctor"
Patient == "Patient"
UserRoleEnum == {Doctor, Patient}

PatientIds == {"p1", "p2"}
DoctorIds == {"d1", "d2"}
UnknownIds == {"zz"}            \* a well-formed UUID that names no user
Ids == PatientIds \cup DoctorIds \cup UnknownIds
\* what a doctor_ids list is drawn from: doctors, a patient, an unknown id
DoctorIdInputs == DoctorIds \cup {"p2"} \cup UnknownIds
NoId == "None"                  \* an optional UUID left out

\* pwd_context.hash: bcrypt of the password under a fresh salt
hash_password(password, salt) == <<"bcrypt", salt, password>>

\* pwd_context.verify: the password hashed under the salt of the digest
is_valid_password(plain_password, hashed_password) ==
    hashed_password = hash_password(plain_password, hashed_password[2])

Salts == {1}
Passwords == {"password1234", "not the password"}

\* The users a run of signups leaves behind: two patients, two doctors.
Population ==
    [id \in PatientIds \cup DoctorIds |->
        [email |-> id, role |-> IF id \in DoctorIds THEN Doctor ELSE Patient,
         password_hash |-> hash_password("password1234", 1)]]

\* The moment the process imported its modules (defaults are evaluated then).
ImportTime == 0

(* ------------------------------ strings -------------------------------- *)
\* A string is its text and the Fernet layers wrapped around it (outermost
\* first, each layer named by its IV).  None is the absent keyword argument.
Str(s) == [text |-> s, layers |-> <<>>, none |-> FALSE]
None == [text |-> "", layers |-> <<>>, none |-> TRUE]
IVs == {1}
Plaintexts == {Str(""), Str("rest")}

\* variant: the content is stored as it came
encrypt_nothing(content, iv) == content

\* fernet.encrypt: a fresh token around the content
encrypt(content, iv) == [content EXCEPT !.layers = <<iv>> \o @]

\* what fernet.decrypt raises for anything that is not a token of this key
InvalidToken == [text |-> "InvalidToken", layers |-> <<>>, none |-> TRUE]

\* fernet.decrypt: the content inside the outermost token
decrypt(content) ==
    IF content.layers = <<>> THEN InvalidToken ELSE [content EXCEPT !.layers = Tail(@)]

\* variant: nothing ever looks encrypted
never_encrypted(content) == FALSE

\* is_encrypted: decrypt(content) does not raise InvalidToken
is_encrypted(content) == decrypt(content) # InvalidToken
Truthy(content) == ~content.none /\ ~(content.text = "" /\ content.layers = <<>>)

Contents == Plaintexts \cup {encrypt(Str("rest"), iv) : iv \in IVs}

(* --------------------------- responses --------------------------------- *)
Created == "201 Created"
OK == "200 OK"
BadRequestError == "400 Bad Request"
ForbiddenActionError == "403 Forbidden"
NotFoundError == "404 Not Found"
UserExistsError == "409 Conflict"
IntegrityError == "IntegrityError (unhandled)"

OnlyPatients == "You are unauthorized to perform this action. Only patients can perform this action."
OnlyDoctors == "You are unauthorized to perform this action. Only doctors can perform this action."
Unauthorized == "You are unauthorized to perform this action"
NotMyPatient == "This is not a patient of yours"
EmptyIds == "Doctor IDs list cannot be empty."
AllAssigned == "All selected doctors are already assigned to this patient."
InvalidDoctors == "The following Doctor IDs do not exist or are not doctors"
NotAssigned == "The doctor is not assigned to you"
EmptyContent == "content cannot be empty"
EmptyContent2 == "content can't be empty"
PreEncrypted == "content should not be pre-encrypted"
NoteNotFound == "note not found"
CannotRead == "You are not authorized to read this note"

NoFilter == [doctor_id |-> NoId, patient_id |-> NoId]

NoRequest ==
    [op |-> "none", actor |-> NoId, doctor_ids |-> <<>>, patient_id |-> NoId,
     content |-> None, note_id |-> 0, filter |-> NoFilter,
     status |-> "none", error |-> "", ids |-> {}, rows |-> {}, notes |-> <<>>]

(* --------------------------- sequences --------------------------------- *)
Range(s) == {s[i] : i \in 1..Len(s)}

SeqsUpTo(S, n) == UNION {[1..k -> S] : k \in 0..n}

Min(S) == CHOOSE x \in S : \A y \in S : x <= y

(* ------------------------- storage: patientdoctor ---------------------- *)
\* PatientDoctor(patient_id=..., doctor_id=...): assigned_at takes the field
\* default, which is evaluated once, when the class is defined.
PatientDoctor(patient_id, doctor_id) ==
    [patient_id |-> patient_id, doctor_id |-> doctor_id, assigned_at |-> ImportTime]

Key(row) == <<row.patient_id, row.doctor_id>>

\* User.doctors: the rows in which the user is the patient
doctors(table, user_id) == {row \in BagToSet(table) : row.patient_id = user_id}

\* variant: the relationship follows the other foreign key
patients_by_patient_id(table, user_id) ==
    {row \in BagToSet(table) : row.patient_id = user_id}

\* User.patients: the rows in which the user is the doctor
patients(table, user_id) == {row \in BagToSet(table) : row.doctor_id = user_id}

\* variant: the condition on the patient is missing
get_by_doctor(table, patient_id, doctor_id) ==
    {row \in BagToSet(table) : row.doctor_id = doctor_id}

\* select(PatientDoctor).where(patient_id).where(doctor_id).first(); the empty
\* set is "no record".
get_by_patient_and_doctor(table, patient_id, doctor_id) ==
    {row \in BagToSet(table) : row.patient_id = patient_id /\ row.doctor_id = doctor_id}

\* variant: the lookup returns None for a missing pair and delete filters it out
returns_None(record) == FALSE

\* get_by_patient_and_doctor raises NotFoundError when first() finds no record
raises_NotFoundError(record) == record = {}

_get_existing_assignments(table, patient_id) ==
    {row.doctor_id : row \in doctors(table, patient_id)}

\* variant: the existing assignments are not subtracted
all_doctor_ids(doctor_ids, existing_doctor_ids) == Range(doctor_ids)

\* set(doctor_ids) - existing_doctor_ids
new_doctor_ids(doctor_ids, existing_doctor_ids) ==
    Range(doctor_ids) \ existing_doctor_ids

\* variant: the role condition of the query is missing
_validate_doctors_any_role(us, doctor_ids) == {id \in doctor_ids : id \in DOMAIN us}

\* select(User.id).where(User.id.in_(doctor_ids), User.role == doctor)
_validate_doctors(us, doctor_ids) ==
    {id \in doctor_ids : id \in DOMAIN us /\ us[id].role = Doctor}

\* variant: the table has neither the primary key nor the unique constraint
no_constraint(table, rows) == TRUE

\* primary key (patient_id, doctor_id) and UniqueConstraint uq_patient_doctor:
\* TRUE when the rows can be added to the table
uq_patient_doctor(table, rows) ==
    /\ \A row \in rows : \A old \in BagToSet(table) : Key(old) # Key(row)
    /\ \A r1, r2 \in rows : Key(r1) = Key(r2) => r1 = r2

\* variant: every object is committed on its own, the first one here
save_first(new_assignments) ==
    IF new_assignments = {} THEN {} ELSE {CHOOSE row \in new_assignments : TRUE}

\* db.bulk_save_objects(new_assignments); db.commit(): the rows one commit
\* makes visible
bulk_save_objects(new_assignments) == new_assignments

\* variant: the DELETE statements are never committed
db_delete_nothing(table, records) == table

\* db.delete(record) for every record; db.commit(): the table after the
\* DELETE statements (by primary key) of one commit
db_delete(table, records) ==
    LET kept == {row \in BagToSet(table) : \A record \in records : Key(row) # Key(record)}
    IN  [row \in kept |-> table[row]]

\* _insert_assignments: the rows and the table after the commit, or the
\* IntegrityError the commit raises (nothing is caught)
_insert_assignments(table, patient_id, doctor_ids) ==
    LET new_assignments == {PatientDoctor(patient_id, doc_id) : doc_id \in doctor_ids}
        saved == bulk_save_objects(new_assignments)
    IN  IF uq_patient_doctor(table, saved)
        THEN [status |-> Created, error |-> "", ids |-> {}, rows |-> new_assignments,
              table |-> table (+) SetToBag(saved)]
        ELSE [status |-> IntegrityError, error |-> "", ids |-> {}, rows |-> {},
              table |-> table]

\* variant: an empty list is let through
any_doctor_ids(doctor_ids) == FALSE

\* "if not doctor_ids", the first statement of create and of delete
not_doctor_ids(doctor_ids) == doctor_ids = <<>>

\* variant: an id that is assigned already is an error, also next to new ids
create_rejects_overlap(table, us, patient_id, doctor_ids) ==
    LET existing_doctor_ids == _get_existing_assignments(table, patient_id)
        new_ids == new_doctor_ids(doctor_ids, existing_doctor_ids)
        valid_doctor_ids == _validate_doctors(us, new_ids)
        invalid_doctor_ids == new_ids \ valid_doctor_ids
    IN  IF not_doctor_ids(doctor_ids)
        THEN [status |-> BadRequestError, error |-> EmptyIds, ids |-> {}, rows |-> {},
              table |-> table]
        ELSE IF Range(doctor_ids) \cap existing_doctor_ids # {}
        THEN [status |-> BadRequestError, error |-> AllAssigned, ids |-> {}, rows |-> {},
              table |-> table]
        ELSE IF invalid_doctor_ids # {}
        THEN [status |-> BadRequestError, error |-> InvalidDoctors,
              ids |-> invalid_doctor_ids, rows |-> {}, table |-> table]
        ELSE _insert_assignments(table, patient_id, valid_doctor_ids)

\* PatientDoctorCrud.create
create(table, us, patient_id, doctor_ids) ==
    LET existing_doctor_ids == _get_existing_assignments(table, patient_id)
        new_ids == new_doctor_ids(doctor_ids, existing_doctor_ids)
        valid_doctor_ids == _validate_doctors(us, new_ids)
        invalid_doctor_ids == new_ids \ valid_doctor_ids
    IN  IF not_doctor_ids(doctor_ids)
        THEN [status |-> BadRequestError, error |-> EmptyIds, ids |-> {}, rows |-> {},
              table |-> table]
        ELSE IF new_ids = {}
        THEN [status |-> BadRequestError, error |-> AllAssigned, ids |-> {}, rows |-> {},
              table |-> table]
        ELSE IF invalid_doctor_ids # {}
        THEN [status |-> BadRequestError, error |-> InvalidDoctors,
              ids |-> invalid_doctor_ids, rows |-> {}, table |-> table]
        ELSE _insert_assignments(table, patient_id, valid_doctor_ids)

\* PatientDoctorCrud.delete
delete(table, patient_id, doctor_ids) ==
    LET lookup(i) == get_by_patient_and_doctor(table, patient_id, doctor_ids[i])
        raising == {i \in 1..Len(doctor_ids) : raises_NotFoundError(lookup(i))}
        existing_records == UNION {lookup(i) : i \in 1..Len(doctor_ids)}
    IN  IF not_doctor_ids(doctor_ids)
        THEN [status |-> BadRequestError, error |-> EmptyIds, ids |-> {}, rows |-> {},
              table |-> table]
        ELSE IF raising # {}
        THEN [status |-> NotFoundError, error |-> NotAssigned,
              ids |-> {doctor_ids[Min(raising)]}, rows |-> {}, table |-> table]
        ELSE [status |-> OK, error |-> "", ids |-> {}, rows |-> existing_records,
              table |-> db_delete(table, existing_records)]

(* ------------------------------ notes ---------------------------------- *)
pagination_default_page == 10

\* variant: the patient has some doctor, not necessarily this one
is_somebodys_patient(table, patient_id, doctor) ==
    patient_id \in {row.patient_id : row \in BagToSet(table)}

\* is_my_patient: patient_id in [patient.patient_id for patient in doctor.patients]
is_my_patient(table, patient_id, doctor) ==
    patient_id \in {row.patient_id : row \in patients(table, doctor)}

\* variant: the content is looked at before the ledger
add_node_checks_content_first(us, table, user, patient_id, content) ==
    IF us[user].role # Doctor
    THEN [status |-> ForbiddenActionError, error |-> Unauthorized]
    ELSE IF content = Str("")
    THEN [status |-> BadRequestError, error |-> EmptyContent]
    ELSE IF ~is_my_patient(table, patient_id, user)
    THEN [status |-> ForbiddenActionError, error |-> NotMyPatient]
    ELSE [status |-> OK, error |-> ""]

\* add_node: the checks in front of Note.save, in the order of the code
add_node_checks(us, table, user, patient_id, content) ==
    IF us[user].role # Doctor
    THEN [status |-> ForbiddenActionError, error |-> Unauthorized]
    ELSE IF ~is_my_patient(table, patient_id, user)
    THEN [status |-> ForbiddenActionError, error |-> NotMyPatient]
    ELSE IF content = Str("")
    THEN [status |-> BadRequestError, error |-> EmptyContent]
    ELSE [status |-> OK, error |-> ""]

\* variant: a save without new content encrypts the stored value every time
Note_save_encrypts_again(encrypted_content, content, iv) ==
    IF ~Truthy(content) /\ ~Truthy(encrypted_content)
    THEN [status |-> BadRequestError, error |-> EmptyContent2, value |-> encrypted_content]
    ELSE IF Truthy(content)
    THEN IF ~is_encrypted(content)
         THEN [status |-> Created, error |-> "", value |-> encrypt(content, iv)]
         ELSE [status |-> BadRequestError, error |-> PreEncrypted, value |-> encrypted_content]
    ELSE [status |-> Created, error |-> "", value |-> encrypt(encrypted_content, iv)]

\* Note.save: the value of encrypted_content it persists, or the error raised
Note_save(encrypted_content, content, iv) ==
    IF ~Truthy(content) /\ ~Truthy(encrypted_content)
    THEN [status |-> BadRequestError, error |-> EmptyContent2, value |-> encrypted_content]
    ELSE IF Truthy(content)
    THEN IF ~is_encrypted(content)
         THEN [status |-> Created, error |-> "", value |-> encrypt(content, iv)]
         ELSE [status |-> BadRequestError, error |-> PreEncrypted, value |-> encrypted_content]
    ELSE IF ~is_encrypted(encrypted_content)
    THEN [status |-> Created, error |-> "", value |-> encrypt(encrypted_content, iv)]
    ELSE [status |-> Created, error |-> "", value |-> encrypted_content]

\* variant: the response carries the stored value
model_validate_stored(note) ==
    [id |-> note.id, doctor_id |-> note.doctor_id, patient_id |-> note.patient_id,
     content |-> note.encrypted_content]

\* schemas.Note.model_validate: the response form of a note, content decrypted
model_validate(note) ==
    [id |-> note.id, doctor_id |-> note.doctor_id, patient_id |-> note.patient_id,
     content |-> decrypt(note.encrypted_content)]

\* crud_note.get_by_id: db.get(Note, obj_id); the empty set is "not found"
get_by_id(table, obj_id) == {table[i] : i \in {j \in 1..Len(table) : table[j].id = obj_id}}

\* variant: a doctor is refused only when not assigned to the note's patient
get_note_forbidden_by_ledger(us, user, note) ==
    \/ us[user].role = Doctor /\ get_by_patient_and_doctor(patientdoctor, note.patient_id, user) = {}
    \/ us[user].role = Patient /\ note.patient_id # user

\* get_note: the condition under which ForbiddenActionError is raised
get_note_forbidden(us, user, note) ==
    \/ us[user].role = Doctor /\ note.doctor_id # user
    \/ us[user].role = Patient /\ note.patient_id # user

\* variant: a supplied filter replaces the actor's own scope
filter_by_unscoped(us, user, filter_query) ==
    IF us[user].role = Doctor
    THEN [doctor_id |-> IF filter_query.patient_id # NoId THEN NoId ELSE user,
          patient_id |-> filter_query.patient_id]
    ELSE [patient_id |-> IF filter_query.doctor_id # NoId THEN NoId ELSE user,
          doctor_id |-> filter_query.doctor_id]

\* list_notes: the filter_by dictionary handed to get_all
filter_by(us, user, filter_query) ==
    IF us[user].role = Doctor
    THEN [doctor_id |-> user, patient_id |-> filter_query.patient_id]
    ELSE [patient_id |-> user, doctor_id |-> filter_query.doctor_id]

\* APICrudBase.get_all: select(...).filter_by(**filter_by).offset(0).limit(limit)
get_all(table, filter, limit) ==
    LET Matches(note) ==
            /\ filter.doctor_id # NoId => note.doctor_id = filter.doctor_id
            /\ filter.patient_id # NoId => note.patient_id = filter.patient_id
        selected == SelectSeq(table, Matches)
    IN  SubSeq(selected, 1, IF Len(selected) < limit THEN Len(selected) ELSE limit)

MapSeq(s, Op(_)) == [i \in 1..Len(s) |-> Op(s[i])]

(* --------------------- handlers, one request at a time ----------------- *)
Respond(op, user, r) ==
    [NoRequest EXCEPT !.op = op, !.actor = user, !.status = r.status,
                      !.error = r.error, !.ids = r.ids, !.rows = r.rows]

Forbidden(error) ==
    [status |-> ForbiddenActionError, error |-> error, ids |-> {}, rows |-> {}]

\* variant: the role gate is missing
no_gate(us, user) == FALSE

\* the gate of assign_doctors, remove_assigned_doctors and list_assigned_doctors
not_patient(us, user) == us[user].role # Patient

\* POST /me/doctors
assign_doctors(user, doctor_ids) ==
    LET r == IF not_patient(users, user)
             THEN Forbidden(OnlyPatients) @@ [table |-> patientdoctor]
             ELSE create(patientdoctor, users, user, doctor_ids)
    IN  /\ patientdoctor' = r.table
        /\ resp' = [Respond("assign_doctors", user, r) EXCEPT !.doctor_ids = doctor_ids]
        /\ UNCHANGED <<users, notes, pc, req>>

\* variant: the notes of a removed doctor for the patient go with the row
remove_cascades_to_notes(user, doctor_ids) ==
    LET r == IF not_patient(users, user)
             THEN Forbidden(OnlyPatients) @@ [table |-> patientdoctor]
             ELSE delete(patientdoctor, user, doctor_ids)
        Kept(note) == ~(note.patient_id = user /\ note.doctor_id \in Range(doctor_ids))
    IN  /\ patientdoctor' = r.table
        /\ notes' = IF r.status = OK THEN SelectSeq(notes, Kept) ELSE notes
        /\ resp' = [Respond("remove_assigned_doctors", user, r) EXCEPT !.doctor_ids = doctor_ids]
        /\ UNCHANGED <<users, pc, req>>

\* POST /me/doctors/remove
remove_assigned_doctors(user, doctor_ids) ==
    LET r == IF not_patient(users, user)
             THEN Forbidden(OnlyPatients) @@ [table |-> patientdoctor]
             ELSE delete(patientdoctor, user, doctor_ids)
    IN  /\ patientdoctor' = r.table
        /\ resp' = [Respond("remove_assigned_doctors", user, r) EXCEPT !.doctor_ids = doctor_ids]
        /\ UNCHANGED <<users, notes, pc, req>>

\* GET /me/doctors
list_assigned_doctors(user) ==
    LET r == IF not_patient(users, user)
             THEN Forbidden(OnlyPatients)
             ELSE [status |-> OK, error |-> "", ids |-> {},
                   rows |-> doctors(patientdoctor, user)]
    IN  /\ resp' = Respond("list_assigned_doctors", user, r)
        /\ UNCHANGED <<users, patientdoctor, notes, pc, req>>

\* GET /me/patients
list_patients(user) ==
    LET r == IF users[user].role # Doctor
             THEN Forbidden(OnlyDoctors)
             ELSE [status |-> OK, error |-> "", ids |-> {},
                   rows |-> patients(patientdoctor, user)]
    IN  /\ resp' = Respond("list_patients", user, r)
        /\ UNCHANGED <<users, patientdoctor, notes, pc, req>>

\* POST /notes, while the notes table of the model holds fewer than room notes
add_node_upto(room, user, patient_id, content, iv) ==
    LET saved == Note_save(None, content, iv)
        db_note == [id |-> Len(notes) + 1, doctor_id |-> user, patient_id |-> patient_id,
                    encrypted_content |-> saved.value]
        checked == add_node_checks(users, patientdoctor, user, patient_id, content)
        r == IF checked.status # OK THEN checked
             ELSE [status |-> saved.status, error |-> saved.error]
    IN  /\ r.status = Created => Len(notes) < room
        /\ notes' = IF r.status = Created THEN Append(notes, db_note) ELSE notes
        /\ resp' = [NoRequest EXCEPT !.op = "add_node", !.actor = user,
                        !.patient_id = patient_id, !.content = content,
                        !.status = r.status, !.error = r.error,
                        !.notes = IF r.status = Created
                                  THEN <<model_validate(db_note)>> ELSE <<>>]
        /\ UNCHANGED <<users, patientdoctor, pc, req>>

\* POST /notes
add_node(user, patient_id, content, iv) ==
    add_node_upto(MaxNotes, user, patient_id, content, iv)

\* GET /notes/{note_id}
get_note(user, note_id) ==
    LET found == get_by_id(notes, note_id)
        note == CHOOSE n \in found : TRUE
        r == IF found = {}
             THEN [status |-> NotFoundError, error |-> NoteNotFound, notes |-> <<>>]
             ELSE IF get_note_forbidden(users, user, note)
             THEN [status |-> ForbiddenActionError, error |-> CannotRead, notes |-> <<>>]
             ELSE [status |-> OK, error |-> "", notes |-> <<model_validate(note)>>]
    IN  /\ resp' = [NoRequest EXCEPT !.op = "get_note", !.actor = user,
                        !.note_id = note_id, !.status = r.status,
                        !.error = r.error, !.notes = r.notes]
        /\ UNCHANGED <<users, patientdoctor, notes, pc, req>>

\* GET /notes
list_notes(user, filter_query) ==
    LET found == get_all(notes, filter_by(users, user, filter_query),
                         pagination_default_page)
    IN  /\ resp' = [NoRequest EXCEPT !.op = "list_notes", !.actor = user,
                        !.filter = filter_query, !.status = OK,
                        !.notes = MapSeq(found, model_validate)]
        /\ UNCHANGED <<users, patientdoctor, notes, pc, req>>

(* --------------------------- authentication -------------------------- *)
UnauthorizedError == "401 Unauthorized"
InvalidCredentials == "Invalid email or password"
WWWAuthenticate == "WWW-Authenticate: Bearer"
EmailTaken == "Sorry, this email is already taken"

access_token_expire_minutes == 60
secret_key == "settings.secret_key"

\* the clock advances by half a token lifetime
Elapse == {access_token_expire_minutes \div 2}
LastMoment == MaxTicks * (access_token_expire_minutes \div 2)

\* A token is its claims and the key of its signature.  NoId is a claim that
\* is not there; a string that is not a JWT has no key.
Token(sub, email, role, exp, key) ==
    [sub |-> sub, email |-> email, role |-> role, exp |-> exp, key |-> key]
NoToken == Token(NoId, NoId, "", 0, "")
NotAJWT == Token(NoId, NoId, "", 0, "not a JWT")

\* the Authorization header of a request; NoHeader is a request without one
Authorization(scheme, param) == [scheme |-> scheme, param |-> param]
NoHeader == Authorization("", NoToken)
Bearer(token) == Authorization("Bearer", token)

lower(scheme) ==
    CASE scheme = "Bearer" -> "bearer"
      [] scheme = "Basic" -> "basic"
      [] OTHER -> scheme

\* what a request presented and what the service made of it
NoAuth ==
    [authorization |-> NoHeader, username |-> "", password |-> "", user |-> NoId,
     status |-> "none", error |-> "", headers |-> "", access_token |-> NoToken,
     expires |-> 0]

\* raise UnauthorizedError()
Rejected ==
    [status |-> UnauthorizedError, error |-> InvalidCredentials,
     headers |-> WWWAuthenticate, user |-> NoId]

\* variant: any account of that email will do
authenticate_user_by_email(us, email, password) ==
    LET found == {id \in DOMAIN us : us[id].email = email}
    IN  IF found = {} THEN NoId ELSE CHOOSE id \in found : TRUE

\* authenticate_user: the user of that email and password, or None
authenticate_user(us, email, password) ==
    LET found == {id \in DOMAIN us : us[id].email = email}
        user == CHOOSE id \in found : TRUE
    IN  IF found = {} THEN NoId
        ELSE IF ~is_valid_password(password, us[user].password_hash) THEN NoId
        ELSE user

\* variant: the expiry computed when the settings were loaded
create_access_token_at_import(data, t) ==
    Token(data.sub, data.email, data.role, ImportTime + access_token_expire_minutes,
          secret_key)

\* create_access_token without expires_delta, called at time t
create_access_token(data, t) ==
    Token(data.sub, data.email, data.role, t + access_token_expire_minutes, secret_key)

\* jwt.decode at time t: InvalidTokenError for what is not a JWT, for another
\* key's signature and for an expired token
jwt_decode(token, key, t) ==
    IF token.key # key THEN [error |-> "InvalidTokenError", payload |-> NoToken]
    ELSE IF token.exp <= t THEN [error |-> "InvalidTokenError", payload |-> NoToken]
    ELSE [error |-> "", payload |-> token]

\* variant: the signature is not verified
verify_access_token_any_key(token, t) ==
    LET decoded == jwt_decode(token, token.key, t)
    IN  IF token.key \in {NoToken.key, NotAJWT.key} \/ decoded.error # ""
        THEN Rejected @@ [email |-> NoId]
        ELSE IF decoded.payload.sub = NoId \/ decoded.payload.email = NoId
        THEN Rejected @@ [email |-> NoId]
        ELSE [status |-> OK, error |-> "", headers |-> "",
              user |-> decoded.payload.sub, email |-> decoded.payload.email]

\* verify_access_token: the TokenPayload of the token, or UnauthorizedError
verify_access_token(token, t) ==
    LET decoded == jwt_decode(token, secret_key, t)
    IN  IF decoded.error # "" THEN Rejected @@ [email |-> NoId]
        ELSE IF decoded.payload.sub = NoId \/ decoded.payload.email = NoId
        THEN Rejected @@ [email |-> NoId]
        ELSE [status |-> OK, error |-> "", headers |-> "",
              user |-> decoded.payload.sub, email |-> decoded.payload.email]

\* OAuth2PasswordBearer2.__call__: the parameter of a Bearer header
OAuth2PasswordBearer2(authorization) ==
    IF authorization = NoHeader \/ lower(authorization.scheme) # "bearer"
    THEN Rejected @@ [param |-> NoToken]
    ELSE [status |-> OK, error |-> "", headers |-> "", user |-> NoId,
          param |-> authorization.param]

\* variant: a subject that is gone is reported as a missing object
get_current_user_or_NotFound(authorization, us, t) ==
    LET scheme == OAuth2PasswordBearer2(authorization)
        token_data == verify_access_token(scheme.param, t)
    IN  IF scheme.status # OK THEN Rejected
        ELSE IF token_data.status # OK THEN Rejected
        ELSE IF token_data.user \in DOMAIN us
        THEN [status |-> OK, error |-> "", headers |-> "", user |-> token_data.user]
        ELSE [status |-> NotFoundError, error |-> "user not found", headers |-> "",
              user |-> NoId]

\* get_current_user: db.get(User, token_data.user_id), or UnauthorizedError
get_current_user(authorization, us, t) ==
    LET scheme == OAuth2PasswordBearer2(authorization)
        token_data == verify_access_token(scheme.param, t)
    IN  IF scheme.status # OK THEN Rejected
        ELSE IF token_data.status # OK THEN Rejected
        ELSE IF token_data.user \in DOMAIN us
        THEN [status |-> OK, error |-> "", headers |-> "", user |-> token_data.user]
        ELSE Rejected

\* variant: the email column is not unique
email_is_free(us, email) == FALSE

\* User.email is unique: the INSERT of a second row of that email raises
\* IntegrityError
email_taken(us, email) == \E id \in DOMAIN us : us[id].email = email

\* uuid.uuid4, the default of BaseModel.id: an id no row has
NewIds == {"u1", "u2"}
uuid4(us) == CHOOSE id \in NewIds : id \notin DOMAIN us

\* POST /auth/signup
signup(email, role, password, salt) ==
    LET id == uuid4(users)
        user == [email |-> email, role |-> role,
                 password_hash |-> hash_password(password, salt)]
        created == ~email_taken(users, email)
    IN  /\ users' = IF created THEN users @@ (id :> user) ELSE users
        /\ resp' = IF created
                   THEN [NoRequest EXCEPT !.op = "signup", !.actor = id, !.status = Created]
                   ELSE [NoRequest EXCEPT !.op = "signup", !.status = UserExistsError,
                                          !.error = EmailTaken]
        /\ auth' = [NoAuth EXCEPT !.username = email, !.password = password]
        /\ UNCHANGED <<patientdoctor, notes, pc, req, now, tokens>>

\* POST /auth/login
login(username, password) ==
    LET user == authenticate_user(users, username, password)
        access_token == create_access_token(
            [sub |-> user, email |-> users[user].email, role |-> users[user].role], now)
        credentials == [NoAuth EXCEPT !.username = username, !.password = password]
    IN  /\ tokens' = IF user = NoId THEN tokens ELSE {access_token}
        /\ auth' = IF user = NoId
                   THEN [credentials EXCEPT !.status = Rejected.status,
                                            !.error = Rejected.error,
                                            !.headers = Rejected.headers]
                   ELSE [credentials EXCEPT !.status = OK, !.user = user,
                                            !.access_token = access_token,
                                            !.expires = access_token.exp]
        /\ resp' = IF user = NoId
                   THEN [NoRequest EXCEPT !.op = "login", !.status = Rejected.status,
                                          !.error = Rejected.error]
                   ELSE [NoRequest EXCEPT !.op = "login", !.actor = user, !.status = OK]
        /\ UNCHANGED <<users, patientdoctor, notes, pc, req, now>>

\* time passes
Tick(minutes) ==
    /\ now + minutes <= LastMoment
    /\ now' = now + minutes
    /\ UNCHANGED <<users, patientdoctor, notes, resp, pc, req, tokens, auth>>

\* the user Depends(get_current_user) hands to the handler
CurrentUser(authorization) == get_current_user(authorization, users, now).user

\* a handler behind Depends(get_current_user): the dependency is resolved
\* first, and the handler runs (handled) for the user it returns
Protected(authorization, request, handled) ==
    LET who == get_current_user(authorization, users, now)
    IN  /\ auth' = [NoAuth EXCEPT !.authorization = authorization, !.user = who.user,
                                  !.status = who.status, !.error = who.error,
                                  !.headers = who.headers]
        /\ IF who.status # OK
           THEN /\ resp' = [request EXCEPT !.status = who.status, !.error = who.error]
                /\ UNCHANGED <<users, patientdoctor, notes, pc, req>>
           ELSE handled
        /\ UNCHANGED <<now, tokens>>

(* ------------------------------ Spec ----------------------------------- *)
Requests == {"r1", "r2"}

\* a request slot: arguments, the locals of the handler, and the outcome
Idle ==
    [op |-> "none", actor |-> NoId, doctor_ids |-> <<>>, patient_id |-> NoId,
     content |-> None, new_doctor_ids |-> {}, valid_doctor_ids |-> {},
     existing_records |-> {}, status |-> "none", error |-> "", rows |-> {}]

Init ==
    /\ users = Population
    /\ patientdoctor = EmptyBag
    /\ notes = <<>>
    /\ resp = NoRequest
    /\ pc = [r \in Requests |-> "idle"]
    /\ req = [r \in Requests |-> Idle]
    /\ now = 0
    /\ tokens = {}
    /\ auth = NoAuth

\* who calls assign and remove: every patient and a doctor
LedgerActors == PatientIds \cup {"d1"}

\* the ledger interface
Next ==
    \/ \E user \in LedgerActors, doctor_ids \in SeqsUpTo(DoctorIdInputs, MaxIds) :
            assign_doctors(user, doctor_ids) /\ UNCHANGED authvars
    \/ \E user \in LedgerActors, doctor_ids \in SeqsUpTo(DoctorIdInputs, MaxIds) :
            remove_assigned_doctors(user, doctor_ids) /\ UNCHANGED authvars
    \/ \E user \in DOMAIN users : list_assigned_doctors(user) /\ UNCHANGED authvars
    \/ \E user \in DOMAIN users : list_patients(user) /\ UNCHANGED authvars

Spec == Init /\ [][Next]_vars

(* ---------------------------- SpecNotes -------------------------------- *)
NoteIds == 1..(MaxNotes + 1)

\* filter parameters: none, or one of doctor_id / patient_id
Filters ==
    {NoFilter} \cup {[NoFilter EXCEPT !.doctor_id = id] : id \in Ids}
               \cup {[NoFilter EXCEPT !.patient_id = id] : id \in Ids}

\* the notes interface; the ledger moves by one doctor at a time
NextNotes ==
    \/ \E user \in PatientIds, doctor_id \in DoctorIds :
            assign_doctors(user, <<doctor_id>>) /\ UNCHANGED authvars
    \/ \E user \in PatientIds, doctor_id \in DoctorIds :
            remove_assigned_doctors(user, <<doctor_id>>) /\ UNCHANGED authvars
    \/ \E user \in DOMAIN users, patient_id \in Ids, content \in Contents, iv \in IVs :
            add_node(user, patient_id, content, iv) /\ UNCHANGED authvars
    \/ \E user \in DOMAIN users, note_id \in NoteIds : get_note(user, note_id) /\ UNCHANGED authvars
    \/ \E user \in DOMAIN users, filter_query \in Filters : list_notes(user, filter_query) /\ UNCHANGED authvars

SpecNotes == Init /\ [][NextNotes]_vars

(* ----------------------------- SpecConc -------------------------------- *)
\* Requests interleave between database statements.  A SELECT reads the
\* committed table; bulk_save_objects / db.delete followed by db.commit is one
\* transaction and becomes visible at once, or not at all when it raises.
ConcPatients == {"p1"}
ConcDoctors == {"d1"}
ConcIdInputs == DoctorIds \cup UnknownIds
\* the doctor_ids lists of concurrent requests: no id twice
ConcLists == {ids \in SeqsUpTo(ConcIdInputs, MaxIds) : Cardinality(Range(ids)) = Len(ids)}

Done(r, request, result) ==
    /\ pc' = [pc EXCEPT ![r] = "done"]
    /\ req' = [req EXCEPT ![r] = [request EXCEPT !.status = result.status,
                                                 !.error = result.error,
                                                 !.rows = result.rows]]

Goto(r, label, request) ==
    /\ pc' = [pc EXCEPT ![r] = label]
    /\ req' = [req EXCEPT ![r] = request]

BadRequest(error) ==
    [status |-> BadRequestError, error |-> error, ids |-> {}, rows |-> {}]

\* assign_doctors up to and including _get_existing_assignments
assign_begin(r, user, doctor_ids) ==
    LET request == [Idle EXCEPT !.op = "assign_doctors", !.actor = user,
                                !.doctor_ids = doctor_ids]
        existing_doctor_ids == _get_existing_assignments(patientdoctor, user)
        new_ids == new_doctor_ids(doctor_ids, existing_doctor_ids)
    IN  /\ pc[r] = "idle"
        /\ IF not_patient(users, user) THEN Done(r, request, Forbidden(OnlyPatients))
           ELSE IF doctor_ids = <<>> THEN Done(r, request, BadRequest(EmptyIds))
           ELSE IF new_ids = {} THEN Done(r, request, BadRequest(AllAssigned))
           ELSE Goto(r, "_validate_doctors", [request EXCEPT !.new_doctor_ids = new_ids])
        /\ UNCHANGED <<users, patientdoctor, notes, resp>>

\* _validate_doctors: one SELECT on users
assign_validate(r) ==
    LET valid == _validate_doctors(users, req[r].new_doctor_ids)
    IN  /\ pc[r] = "_validate_doctors"
        /\ IF req[r].new_doctor_ids \ valid # {}
           THEN Done(r, req[r], BadRequest(InvalidDoctors))
           ELSE Goto(r, "_insert_assignments", [req[r] EXCEPT !.valid_doctor_ids = valid])
        /\ UNCHANGED <<users, patientdoctor, notes, resp>>

\* _insert_assignments: bulk_save_objects and commit
assign_insert(r) ==
    LET result == _insert_assignments(patientdoctor, req[r].actor, req[r].valid_doctor_ids)
    IN  /\ pc[r] = "_insert_assignments"
        /\ patientdoctor' = result.table
        /\ Done(r, req[r], result)
        /\ UNCHANGED <<users, notes, resp>>

\* one get_by_patient_and_doctor of the list comprehension of delete
Lookup(r, request) ==
    LET i == Cardinality(request.existing_records) + 1
        record == get_by_patient_and_doctor(patientdoctor, request.actor,
                                            request.doctor_ids[i])
        found == [request EXCEPT !.existing_records = @ \cup {<<i, record>>}]
    IN  IF raises_NotFoundError(record)
        THEN Done(r, request, [status |-> NotFoundError, error |-> NotAssigned, rows |-> {}])
        ELSE IF i = Len(request.doctor_ids) THEN Goto(r, "commit", found)
        ELSE Goto(r, "get_by_patient_and_doctor", found)

\* remove_assigned_doctors up to and including the first lookup
remove_begin(r, user, doctor_ids) ==
    LET request == [Idle EXCEPT !.op = "remove_assigned_doctors", !.actor = user,
                                !.doctor_ids = doctor_ids]
    IN  /\ pc[r] = "idle"
        /\ IF not_patient(users, user) THEN Done(r, request, Forbidden(OnlyPatients))
           ELSE IF doctor_ids = <<>> THEN Done(r, request, BadRequest(EmptyIds))
           ELSE Lookup(r, request)
        /\ UNCHANGED <<users, patientdoctor, notes, resp>>

\* the next lookup
remove_lookup(r) ==
    /\ pc[r] = "get_by_patient_and_doctor"
    /\ Lookup(r, req[r])
    /\ UNCHANGED <<users, patientdoctor, notes, resp>>

\* the records the lookups of a remove found
Records(request) == UNION {pair[2] : pair \in request.existing_records}

\* db.delete of every record, and commit
remove_commit(r) ==
    /\ pc[r] = "commit"
    /\ patientdoctor' = db_delete(patientdoctor, Records(req[r]))
    /\ Done(r, req[r], [status |-> OK, error |-> "", rows |-> Records(req[r])])
    /\ UNCHANGED <<users, notes, resp>>

\* GET /me/doctors: the relationship is loaded by one SELECT
list_assigned_doctors_read(r, user) ==
    LET request == [Idle EXCEPT !.op = "list_assigned_doctors", !.actor = user]
    IN  /\ pc[r] = "idle"
        /\ IF not_patient(users, user) THEN Done(r, request, Forbidden(OnlyPatients))
           ELSE Done(r, request, [status |-> OK, error |-> "",
                                  rows |-> doctors(patientdoctor, user)])
        /\ UNCHANGED <<users, patientdoctor, notes, resp>>

\* POST /notes up to and including is_my_patient
add_node_begin(r, user, patient_id, content) ==
    LET request == [Idle EXCEPT !.op = "add_node", !.actor = user,
                                !.patient_id = patient_id, !.content = content]
        checked == add_node_checks(users, patientdoctor, user, patient_id, content)
    IN  /\ pc[r] = "idle"
        /\ IF checked.status # OK
           THEN Done(r, request, checked @@ [rows |-> {}])
           ELSE Goto(r, "save", request)
        /\ UNCHANGED <<users, patientdoctor, notes, resp>>

\* Note.save: INSERT and commit
add_node_save(r, iv) ==
    LET saved == Note_save(None, req[r].content, iv)
        db_note == [id |-> Len(notes) + 1, doctor_id |-> req[r].actor,
                    patient_id |-> req[r].patient_id, encrypted_content |-> saved.value]
    IN  /\ pc[r] = "save"
        /\ saved.status = Created => Len(notes) < MaxNotes
        /\ notes' = IF saved.status = Created THEN Append(notes, db_note) ELSE notes
        /\ Done(r, req[r], [status |-> saved.status, error |-> saved.error, rows |-> {}])
        /\ UNCHANGED <<users, patientdoctor, resp>>

\* the response is sent and the worker takes the next request
finish(r) ==
    /\ pc[r] = "done"
    /\ pc' = [pc EXCEPT ![r] = "idle"]
    /\ req' = [req EXCEPT ![r] = Idle]
    /\ UNCHANGED <<users, patientdoctor, notes, resp>>

NextConc ==
    \/ \E r \in Requests, user \in ConcPatients, doctor_ids \in ConcLists :
          assign_begin(r, user, doctor_ids) /\ UNCHANGED authvars
    \/ \E r \in Requests : assign_validate(r) /\ UNCHANGED authvars
    \/ \E r \in Requests : assign_insert(r) /\ UNCHANGED authvars
    \/ \E r \in Requests, user \in ConcPatients, doctor_ids \in ConcLists :
          remove_begin(r, user, doctor_ids) /\ UNCHANGED authvars
    \/ \E r \in Requests : remove_lookup(r) /\ UNCHANGED authvars
    \/ \E r \in Requests : remove_commit(r) /\ UNCHANGED authvars
    \/ \E r \in Requests, user \in ConcPatients \cup ConcDoctors :
          list_assigned_doctors_read(r, user) /\ UNCHANGED authvars
    \/ \E r \in Requests, user \in ConcPatients \cup ConcDoctors, patient_id \in ConcPatients,
          content \in Contents : add_node_begin(r, user, patient_id, content) /\ UNCHANGED authvars
    \/ \E r \in Requests, iv \in IVs : add_node_save(r, iv) /\ UNCHANGED authvars
    \/ \E r \in Requests : finish(r) /\ UNCHANGED authvars

SpecConc == Init /\ [][NextConc]_vars

(* ----------------------------- SpecAuth -------------------------------- *)
\* Accounts, sessions and the clock: every request carries the token the
\* client holds.
SignupEmails == {"d1", "new"}
Usernames == {"d1", "p1", "new", "nobody"}

Held == {Bearer(token) : token \in tokens}

\* the doctor_ids of an assign: a doctor, or a patient
AuthLists == {<<"d1">>, <<"p1">>}

NextAuth ==
    \/ \E email \in SignupEmails, role \in UserRoleEnum, salt \in Salts :
          signup(email, role, "password1234", salt)
    \/ \E username \in Usernames, password \in Passwords : login(username, password)
    \/ \E minutes \in Elapse : Tick(minutes)
    \/ \E authorization \in Held, doctor_ids \in AuthLists :
          Protected(authorization,
                    [NoRequest EXCEPT !.op = "assign_doctors", !.doctor_ids = doctor_ids],
                    assign_doctors(CurrentUser(authorization), doctor_ids))
    \/ \E authorization \in Held :
          Protected(authorization,
                    [NoRequest EXCEPT !.op = "remove_assigned_doctors",
                                      !.doctor_ids = <<"d1">>],
                    remove_assigned_doctors(CurrentUser(authorization), <<"d1">>))
    \/ \E authorization \in Held :
          Protected(authorization, [NoRequest EXCEPT !.op = "list_assigned_doctors"],
                    list_assigned_doctors(CurrentUser(authorization)))
    \/ \E authorization \in Held :
          Protected(authorization, [NoRequest EXCEPT !.op = "list_patients"],
                    list_patients(CurrentUser(authorization)))
    \/ \E authorization \in Held, iv \in IVs :
          Protected(authorization,
                    [NoRequest EXCEPT !.op = "add_node", !.patient_id = "p1",
                                      !.content = Str("rest")],
                    add_node(CurrentUser(authorization), "p1", Str("rest"), iv))
    \/ \E authorization \in Held :
          Protected(authorization, [NoRequest EXCEPT !.op = "get_note", !.note_id = 1],
                    get_note(CurrentUser(authorization), 1))
    \/ \E authorization \in Held :
          Protected(authorization, [NoRequest EXCEPT !.op = "list_notes"],
                    list_notes(CurrentUser(authorization), NoFilter))

SpecAuth == Init /\ [][NextAuth]_vars

(* ----------------------------- SpecGate -------------------------------- *)
\* The gate in front of every protected handler.  A request carries no
\* header, the token login issued under the Bearer or another scheme, or a
\* token made elsewhere: not a JWT, signed with another key, or signed with
\* this key for a subject that is not a user or without a claim.
Forged == Token("d1", "d1", Doctor, LastMoment + 1, "another key")
Orphan == Token("zz", "zz", Patient, LastMoment + 1, secret_key)
NoSubject == Token(NoId, "d1", Doctor, LastMoment + 1, secret_key)
NoEmail == Token("d1", NoId, Doctor, LastMoment + 1, secret_key)
MadeElsewhere == {NotAJWT, Forged, Orphan, NoSubject, NoEmail}

Headers ==
    {NoHeader} \cup {Bearer(token) : token \in tokens \cup MadeElsewhere}
               \cup {Authorization("Basic", token) : token \in tokens}

GateUsernames == {"d1", "p1"}
GateLists == {<<>>, <<"d1">>}
GateContents == {Str(""), Str("rest")}

NextGate ==
    \/ \E username \in GateUsernames : login(username, "password1234")
    \/ \E authorization \in Headers, doctor_ids \in GateLists :
          Protected(authorization,
                    [NoRequest EXCEPT !.op = "assign_doctors", !.doctor_ids = doctor_ids],
                    assign_doctors(CurrentUser(authorization), doctor_ids))
    \/ \E authorization \in Headers, doctor_ids \in GateLists :
          Protected(authorization,
                    [NoRequest EXCEPT !.op = "remove_assigned_doctors",
                                      !.doctor_ids = doctor_ids],
                    remove_assigned_doctors(CurrentUser(authorization), doctor_ids))
    \/ \E authorization \in Headers :
          Protected(authorization, [NoRequest EXCEPT !.op = "list_assigned_doctors"],
                    list_assigned_doctors(CurrentUser(authorization)))
    \/ \E authorization \in Headers :
          Protected(authorization, [NoRequest EXCEPT !.op = "list_patients"],
                    list_patients(CurrentUser(authorization)))
    \/ \E authorization \in Headers, content \in GateContents, iv \in IVs :
          Protected(authorization,
                    [NoRequest EXCEPT !.op = "add_node", !.patient_id = "p1",
                                      !.content = content],
                    add_node(CurrentUser(authorization), "p1", content, iv))
    \/ \E authorization \in Headers :
          Protected(authorization, [NoRequest EXCEPT !.op = "get_note", !.note_id = 1],
                    get_note(CurrentUser(authorization), 1))
    \/ \E authorization \in Headers :
          Protected(authorization, [NoRequest EXCEPT !.op = "list_notes"],
                    list_notes(CurrentUser(authorization), NoFilter))

SpecGate == Init /\ [][NextGate]_vars

(* ----------------------------- SpecPage -------------------------------- *)
\* One doctor writes note after note for one patient, more of them than one
\* page of get_all holds, and both of them list the notes.
PageFilters ==
    {NoFilter, [NoFilter EXCEPT !.patient_id = "p1"], [NoFilter EXCEPT !.doctor_id = "d1"]}

NextPage ==
    \/ assign_doctors("p1", <<"d1">>) /\ UNCHANGED authvars
    \/ remove_assigned_doctors("p1", <<"d1">>) /\ UNCHANGED authvars
    \/ \E iv \in IVs :
            add_node_upto(MaxStored, "d1", "p1", Str("rest"), iv) /\ UNCHANGED authvars
    \/ \E user \in {"d1", "p1"}, filter_query \in PageFilters :
            list_notes(user, filter_query) /\ UNCHANGED authvars

SpecPage == Init /\ [][NextPage]_vars

(* ----------------------------- SpecSave -------------------------------- *)
\* Notes are built with a value in encrypted_content and saved without the
\* content keyword, for the first time and again, as the tests build them.
SaveIVs == {1, 2}
StoredValues == Plaintexts \cup {encrypt(p, iv) : p \in Plaintexts, iv \in SaveIVs}

\* Note(patient_id=, doctor_id=, encrypted_content=).save(db=db, created=True)
Note_create(doctor_id, patient_id, encrypted_content, iv) ==
    LET saved == Note_save(encrypted_content, None, iv)
        db_note == [id |-> Len(notes) + 1, doctor_id |-> doctor_id,
                    patient_id |-> patient_id, encrypted_content |-> saved.value]
    IN  /\ saved.status = Created => Len(notes) < MaxNotes
        /\ notes' = IF saved.status = Created THEN Append(notes, db_note) ELSE notes
        /\ resp' = [NoRequest EXCEPT !.op = "Note.save(created=True)", !.actor = doctor_id,
                        !.patient_id = patient_id, !.content = encrypted_content,
                        !.status = saved.status, !.error = saved.error,
                        !.notes = IF saved.status = Created
                                  THEN <<model_validate(db_note)>> ELSE <<>>]
        /\ UNCHANGED <<users, patientdoctor, pc, req>>

\* note.save(db=db) of a note that is in the table
Note_resave(note_id, iv) ==
    /\ note_id \in 1..Len(notes)
    /\ LET saved == Note_save(notes[note_id].encrypted_content, None, iv)
           db_note == [notes[note_id] EXCEPT !.encrypted_content = saved.value]
       IN  /\ notes' = IF saved.status = Created
                       THEN [notes EXCEPT ![note_id] = db_note] ELSE notes
           /\ resp' = [NoRequest EXCEPT !.op = "Note.save", !.note_id = note_id,
                           !.content = notes[note_id].encrypted_content,
                           !.status = saved.status, !.error = saved.error,
                           !.notes = IF saved.status = Created
                                     THEN <<model_validate(db_note)>> ELSE <<>>]
    /\ UNCHANGED <<users, patientdoctor, pc, req>>

NextSave ==
    \/ \E doctor_id \in DoctorIds, patient_id \in PatientIds,
          encrypted_content \in StoredValues, iv \in SaveIVs :
            Note_create(doctor_id, patient_id, encrypted_content, iv) /\ UNCHANGED authvars
    \/ \E note_id \in NoteIds, iv \in SaveIVs :
            Note_resave(note_id, iv) /\ UNCHANGED authvars
    \/ \E user \in DOMAIN users, note_id \in NoteIds :
            get_note(user, note_id) /\ UNCHANGED authvars

SpecSave == Init /\ [][NextSave]_vars

(* ------------------------- properties: Spec ---------------------------- *)
Role(user) == users[user].role

\* the number of rows of the table for one (patient, doctor) pair
RowCount(table, patient_id, doctor_id) ==
    LET rows == get_by_patient_and_doctor(table, patient_id, doctor_id)
    IN  BagCardinality([row \in rows |-> table[row]])

IsLedgerCall(r) == r.op \in {"assign_doctors", "remove_assigned_doctors"}

\* C1: a Doctor's assign or remove call fails with Forbidden for every
\* doctor_ids value and leaves the ledger unchanged.
C1_DoctorNeverChangesLedger ==
    [][(IsLedgerCall(resp') /\ Role(resp'.actor) = Doctor)
        => /\ resp'.status = ForbiddenActionError
           /\ patientdoctor' = patientdoctor]_vars

\* a doctor with a patient asks to remove an assigned doctor and is refused
C1_Witness ==
    /\ resp.op = "remove_assigned_doctors"
    /\ Role(resp.actor) = Doctor
    /\ resp.status = ForbiddenActionError
    /\ patients(patientdoctor, resp.actor) # {}
    /\ resp.doctor_ids = <<resp.actor>>

\* C5: an assign whose new ids include an unknown id or a user who is not a
\* Doctor fails with BadRequest and creates no row, whatever the other ids are.
C5_InvalidIdAbortsAssign ==
    [][(/\ resp'.op = "assign_doctors"
        /\ Role(resp'.actor) = Patient
        /\ \E id \in Range(resp'.doctor_ids) \ _get_existing_assignments(patientdoctor, resp'.actor) :
                id \notin DOMAIN users \/ Role(id) # Doctor)
        => /\ resp'.status = BadRequestError
           /\ patientdoctor' = patientdoctor]_vars

\* a call naming a valid, not yet assigned doctor next to an invalid id failed
C5_Witness ==
    /\ resp.op = "assign_doctors"
    /\ resp.status = BadRequestError
    /\ resp.error = InvalidDoctors
    /\ \E id \in Range(resp.doctor_ids) :
            /\ id \in DoctorIds
            /\ id \notin _get_existing_assignments(patientdoctor, resp.actor)
    /\ \E id \in Range(resp.doctor_ids) : id \in PatientIds
    /\ _get_existing_assignments(patientdoctor, resp.actor) # {}

C7_AllAssignedIsBadRequest ==
    [][(/\ resp'.op = "assign_doctors"
        /\ Role(resp'.actor) = Patient
        /\ Range(resp'.doctor_ids) \subseteq _get_existing_assignments(patientdoctor, resp'.actor))
        => /\ resp'.status = BadRequestError
           /\ patientdoctor' = patientdoctor
           /\ \A id \in Range(resp'.doctor_ids) :
                    RowCount(patientdoctor', resp'.actor, id) = 1]_vars

\* assign(p, {d1}) a second time
C7_Witness ==
    /\ resp.op = "assign_doctors"
    /\ resp.status = BadRequestError
    /\ resp.error = AllAssigned
    /\ Len(resp.doctor_ids) = 1
    /\ RowCount(patientdoctor, resp.actor, resp.doctor_ids[1]) = 1

\* C20: an assign by a Patient succeeds exactly when some id is new and every
\* new id is a Doctor; it then adds one row for each distinct new id and no
\* other row, returns those rows, drops the ids assigned already, and leaves
\* exactly one row for every id of the request.
C20_AssignAddsTheNewRows ==
    [][(resp'.op = "assign_doctors" /\ Role(resp'.actor) = Patient)
        => LET p == resp'.actor
               existing == {row.doctor_id : row \in doctors(patientdoctor, p)}
               new == Range(resp'.doctor_ids) \ existing
               rows == {PatientDoctor(p, d) : d \in new}
           IN  /\ resp'.status = Created
                    <=> /\ new # {}
                        /\ \A d \in new : d \in DOMAIN users /\ Role(d) = Doctor
               /\ resp'.status = Created
                    => /\ patientdoctor' = patientdoctor (+) SetToBag(rows)
                       /\ resp'.rows = rows
                       /\ \A d \in Range(resp'.doctor_ids) :
                            RowCount(patientdoctor', p, d) = 1]_vars

\* a patient with one doctor named that doctor and a new one: one row created
C20_Witness ==
    /\ resp.op = "assign_doctors"
    /\ resp.status = Created
    /\ Len(resp.doctor_ids) = 2
    /\ Cardinality(resp.rows) = 1
    /\ Cardinality(doctors(patientdoctor, resp.actor)) = 2
    /\ resp.doctor_ids[1] # resp.doctor_ids[2]

(* ----------------------- properties: SpecNotes ------------------------- *)
\* C2: add_node with non-empty content is refused with Forbidden exactly when
\* the actor is not a Doctor ("unauthorized", whatever the ledger holds) or is
\* a Doctor without the (patient, doctor) row ("not your patient"); a refused
\* call stores no note and a permitted plaintext is stored.
C2_CreateNoteGate ==
    [][(resp'.op = "add_node" /\ resp'.content # Str(""))
        => LET assigned == get_by_patient_and_doctor(patientdoctor, resp'.patient_id,
                                                     resp'.actor) # {}
               permitted == Role(resp'.actor) = Doctor /\ assigned
           IN  /\ (resp'.status = ForbiddenActionError) <=> ~permitted
               /\ Role(resp'.actor) # Doctor => resp'.error = Unauthorized
               /\ (Role(resp'.actor) = Doctor /\ ~assigned) => resp'.error = NotMyPatient
               /\ resp'.status = ForbiddenActionError => notes' = notes
               /\ (permitted /\ ~is_encrypted(resp'.content))
                    => /\ resp'.status = Created
                       /\ Len(notes') = Len(notes) + 1]_vars

\* a doctor who wrote a note for the patient while assigned is refused after
\* the patient removed them
C2_Witness ==
    /\ resp.op = "add_node"
    /\ resp.status = ForbiddenActionError
    /\ resp.error = NotMyPatient
    /\ resp.content = Str("rest")
    /\ \E i \in 1..Len(notes) :
            notes[i].doctor_id = resp.actor /\ notes[i].patient_id = resp.patient_id

\* C3: get_note on an existing note returns it exactly to the doctor who wrote
\* it and to the patient it is about; everybody else gets Forbidden, no content.
C3_ReadOwnNotesOnly ==
    (resp.op = "get_note" /\ get_by_id(notes, resp.note_id) # {})
        => LET note == CHOOSE n \in get_by_id(notes, resp.note_id) : TRUE
               allowed == \/ Role(resp.actor) = Doctor /\ note.doctor_id = resp.actor
                          \/ Role(resp.actor) = Patient /\ note.patient_id = resp.actor
           IN  IF allowed
               THEN resp.status = OK /\ resp.notes = <<model_validate(note)>>
               ELSE resp.status = ForbiddenActionError /\ resp.notes = <<>>

\* doctor B is refused a note doctor A wrote for a patient both are assigned to
C3_Witness ==
    /\ resp.op = "get_note"
    /\ resp.status = ForbiddenActionError
    /\ Role(resp.actor) = Doctor
    /\ \E n \in get_by_id(notes, resp.note_id) :
            /\ n.doctor_id # resp.actor
            /\ get_by_patient_and_doctor(patientdoctor, n.patient_id, resp.actor) # {}
            /\ get_by_patient_and_doctor(patientdoctor, n.patient_id, n.doctor_id) # {}

\* C4: list_notes returns only notes of the actor (written by the Doctor,
\* about the Patient) whatever the filter; a filter that matches none of them
\* gives an empty list with status OK.
C4_ListScopedToActor ==
    resp.op = "list_notes"
        => LET Own(n) == IF Role(resp.actor) = Doctor THEN n.doctor_id = resp.actor
                                                      ELSE n.patient_id = resp.actor
               counterpart == IF Role(resp.actor) = Doctor THEN resp.filter.patient_id
                                                           ELSE resp.filter.doctor_id
               Other(n) == IF Role(resp.actor) = Doctor THEN n.patient_id ELSE n.doctor_id
           IN  /\ resp.status = OK
               /\ \A i \in 1..Len(resp.notes) : Own(resp.notes[i])
               /\ (/\ counterpart # NoId
                   /\ ~\E i \in 1..Len(notes) : Own(notes[i]) /\ Other(notes[i]) = counterpart)
                    => resp.notes = <<>>

\* a patient with a note asks for the notes of an assigned doctor who never
\* wrote them one
C4_Witness ==
    /\ resp.op = "list_notes"
    /\ Role(resp.actor) = Patient
    /\ resp.filter.doctor_id \in _get_existing_assignments(patientdoctor, resp.actor)
    /\ resp.notes = <<>>
    /\ \E i \in 1..Len(notes) : notes[i].patient_id = resp.actor

\* the (patient, doctor) row of a note request is in the ledger
Assigned(r) == get_by_patient_and_doctor(patientdoctor, r.patient_id, r.actor) # {}

\* C11: every stored note holds ciphertext: its encrypted_content decrypts,
\* and the note a create call just stored differs from the content supplied.
C11_NeverStoresPlaintext ==
    /\ \A i \in 1..Len(notes) : is_encrypted(notes[i].encrypted_content)
    /\ (resp.op = "add_node" /\ resp.status = Created)
            => notes[Len(notes)].encrypted_content # resp.content

\* a doctor stored a note for an assigned patient
C11_Witness ==
    /\ resp.op = "add_node"
    /\ resp.status = Created
    /\ resp.content = Str("rest")
    /\ Len(notes) > 0
    /\ notes[Len(notes)].doctor_id = resp.actor

\* C12: a create call whose content already decrypts stores nothing; when it
\* reaches Note.save (a Doctor, for an assigned patient) it fails with
\* BadRequest "content should not be pre-encrypted".
C12_PreEncryptedIsRejected ==
    [][(resp'.op = "add_node" /\ resp'.content.layers # <<>>)
        => /\ notes' = notes
           /\ resp'.status # Created
           /\ (Role(resp'.actor) = Doctor /\ Assigned(resp'))
                => resp'.status = BadRequestError /\ resp'.error = PreEncrypted]_vars

\* an assigned doctor sent a Fernet token as content
C12_Witness ==
    /\ resp.op = "add_node"
    /\ resp.status = BadRequestError
    /\ resp.error = PreEncrypted
    /\ is_encrypted(resp.content)
    /\ Assigned(resp)
    /\ notes = <<>>

\* C13 as stated: a Doctor's create call with content "" fails with BadRequest
\* whether or not the (patient, doctor) row exists, and stores no note.
C13_EmptyContentIsBadRequest ==
    [][(resp'.op = "add_node" /\ Role(resp'.actor) = Doctor /\ resp'.content = Str(""))
        => /\ resp'.status = BadRequestError
           /\ notes' = notes]_vars

\* C13 amended: a Doctor's create call with content "" stores no note; it
\* fails with BadRequest "content cannot be empty" when the (patient, doctor)
\* row exists and with Forbidden "not a patient of yours" when it does not.
C13_EmptyContentAfterLedgerCheck ==
    [][(resp'.op = "add_node" /\ Role(resp'.actor) = Doctor /\ resp'.content = Str(""))
        => /\ notes' = notes
           /\ IF Assigned(resp')
              THEN resp'.status = BadRequestError /\ resp'.error = EmptyContent
              ELSE resp'.status = ForbiddenActionError /\ resp'.error = NotMyPatient]_vars

\* a doctor sent "" for a patient of a colleague and was refused as a stranger
C13_Witness ==
    /\ resp.op = "add_node"
    /\ Role(resp.actor) = Doctor
    /\ resp.content = Str("")
    /\ resp.status = ForbiddenActionError
    /\ resp.error = NotMyPatient
    /\ resp.patient_id \in PatientIds
    /\ doctors(patientdoctor, resp.patient_id) # {}

\* C14: the content a note is returned with, by the create call and by every
\* later get_note and list_notes, is the non-empty plaintext it was created
\* with: the create call answers with the content supplied, stores a token of
\* it, stored notes never change, and every answer carries the plaintext whose
\* token is stored.
C14_ContentRoundTrip ==
    [][/\ \A i \in 1..Len(notes) : i <= Len(notes') /\ notes'[i] = notes[i]
       /\ resp'.op \in {"add_node", "get_note", "list_notes"}
            => \A k \in 1..Len(resp'.notes) :
                LET n == resp'.notes[k]
                IN  /\ n.content \in Plaintexts \ {Str("")}
                    /\ \E stored \in get_by_id(notes', n.id), iv \in IVs :
                            stored.encrypted_content = encrypt(n.content, iv)
                    /\ resp'.op = "add_node" => n.content = resp'.content]_vars

\* the patient reads the note a doctor wrote for them
C14_Witness ==
    /\ resp.op = "get_note"
    /\ resp.status = OK
    /\ Role(resp.actor) = Patient
    /\ Len(resp.notes) = 1
    /\ resp.notes[1].content = Str("rest")
    /\ resp.notes[1].patient_id = resp.actor

(* ----------------------- properties: SpecConc -------------------------- *)
\* C8: under every interleaving of assign and remove calls the ledger holds at
\* most one row for each (patient_id, doctor_id) pair.
C8_OneRowPerPair ==
    \A row \in BagToSet(patientdoctor) :
        RowCount(patientdoctor, row.patient_id, row.doctor_id) = 1

\* two assign calls raced for one pair: one inserted it, one was turned down
\* by the storage layer
C8_Witness ==
    \E r1, r2 \in Requests :
        /\ pc[r1] = "done" /\ req[r1].op = "assign_doctors" /\ req[r1].status = Created
        /\ pc[r2] = "done" /\ req[r2].op = "assign_doctors" /\ req[r2].status = IntegrityError
        /\ req[r1].actor = req[r2].actor
        /\ \E id \in req[r1].valid_doctor_ids \cap req[r2].valid_doctor_ids :
                RowCount(patientdoctor, req[r1].actor, id) = 1

\* an assign call that passed the existing-assignment check and validation
\* and whose insert did not commit
LostTheRace(r) ==
    /\ pc[r] = "done"
    /\ req[r].op = "assign_doctors"
    /\ req[r].valid_doctor_ids # {}
    /\ req[r].status # Created

\* C9: the assign call that loses the uniqueness check of the storage layer
\* ends with a Conflict error.
C9_LoserGetsConflict ==
    \A r \in Requests : LostTheRace(r) => req[r].status = UserExistsError

\* C10: the ledger only ever moves by all the rows of one call at once, after
\* that call validated every id: an insert adds a row for every new id of a
\* call whose ids were all validated, a delete removes the row of every id of
\* a call whose lookups all succeeded; so no reader sees part of a call.
C10_LedgerMovesByWholeCalls ==
    [][patientdoctor' # patientdoctor =>
        \E r \in Requests :
            /\ pc'[r] = "done"
            /\ \/ /\ pc[r] = "_insert_assignments"
                  /\ req[r].valid_doctor_ids = req[r].new_doctor_ids
                  /\ patientdoctor' = patientdoctor (+)
                        SetToBag({PatientDoctor(req[r].actor, id) : id \in req[r].new_doctor_ids})
               \/ /\ pc[r] = "commit"
                  /\ Cardinality(req[r].existing_records) = Len(req[r].doctor_ids)
                  /\ \A row \in BagToSet(patientdoctor) :
                        IF row.patient_id = req[r].actor /\ row.doctor_id \in Range(req[r].doctor_ids)
                        THEN ~BagIn(row, patientdoctor')
                        ELSE CopiesIn(row, patientdoctor') = CopiesIn(row, patientdoctor)
                  /\ BagToSet(patientdoctor') \subseteq BagToSet(patientdoctor)]_vars

\* a list of the patient's doctors that is still in flight read the ledger
\* before a call committed its two rows: it shows neither of them
C10_Witness ==
    \E r1, r2 \in Requests :
        /\ pc[r1] = "done" /\ req[r1].op = "assign_doctors" /\ req[r1].status = Created
        /\ Cardinality(req[r1].rows) = 2
        /\ pc[r2] = "done" /\ req[r2].op = "list_assigned_doctors"
        /\ req[r2].actor = req[r1].actor /\ req[r2].status = OK
        /\ req[r2].rows = {}
        /\ req[r1].rows \subseteq BagToSet(patientdoctor)

(* ------------------------ properties: SpecAuth ------------------------- *)
ProtectedOps ==
    {"assign_doctors", "remove_assigned_doctors", "list_assigned_doctors",
     "list_patients", "add_node", "get_note", "list_notes"}

\* the accounts of an email
Registered(email) == {id \in DOMAIN users : users[id].email = email}

\* C15: a login with an email no account has and a login with the email of
\* an account and another password get the same answer: 401, the same error
\* and header, no token.
C15_FailedLoginsLookAlike ==
    [][(/\ resp'.op = "login"
        /\ now' = now
        /\ \/ Registered(auth'.username) = {}
           \/ \A id \in Registered(auth'.username) :
                    users[id].password_hash
                        # hash_password(auth'.password, users[id].password_hash[2]))
        => /\ <<resp'.status, resp'.error, resp'.actor>>
                = <<UnauthorizedError, InvalidCredentials, NoId>>
           /\ <<auth'.status, auth'.error, auth'.headers, auth'.user,
                auth'.access_token, auth'.expires>>
                = <<UnauthorizedError, InvalidCredentials, WWWAuthenticate, NoId,
                    NoToken, 0>>
           /\ tokens' = tokens]_vars

\* the account that signed up a moment ago logs in with another password
C15_Witness ==
    /\ resp.op = "login"
    /\ resp.status = UnauthorizedError
    /\ Registered(auth.username) \ DOMAIN Population # {}
    /\ auth.password # "password1234"

\* C18: login at time t issues a token whose expiry is t + 60 minutes; a
\* protected call presenting it before that moment runs as its user, and one
\* presenting it after that moment is answered 401 and changes nothing.
C18_TokenLivesForItsTTL ==
    [][now' = now =>
        /\ (resp'.op = "login" /\ resp'.status = OK)
            => /\ auth'.access_token.exp = now + access_token_expire_minutes
               /\ auth'.expires = now + access_token_expire_minutes
               /\ auth'.access_token.sub = resp'.actor
               /\ tokens' = {auth'.access_token}
        /\ (resp'.op \in ProtectedOps /\ auth'.authorization \in Held)
            => LET token == auth'.authorization.param
               IN  /\ now < token.exp
                        => /\ auth'.status = OK
                           /\ auth'.user = token.sub
                           /\ resp'.actor = token.sub
                           /\ resp'.status # UnauthorizedError
                   /\ now > token.exp
                        => /\ resp'.status = UnauthorizedError
                           /\ UNCHANGED <<users, patientdoctor, notes>>]_vars

\* a token issued after the clock had moved is refused once its hour is over
C18_Witness ==
    /\ resp.op \in ProtectedOps
    /\ resp.status = UnauthorizedError
    /\ auth.authorization \in Held
    /\ auth.authorization.param.exp > ImportTime + access_token_expire_minutes
    /\ now > auth.authorization.param.exp

\* C19: a signup with the email of an account fails with 409 Conflict and
\* leaves the users as they were; no two accounts ever share an email.
C19_EmailsStayUnique ==
    [][/\ (resp'.op = "signup" /\ now' = now /\ Registered(auth'.username) # {})
            => /\ resp'.status = UserExistsError
               /\ users' = users
       /\ \A a, b \in DOMAIN users' : users'[a].email = users'[b].email => a = b]_vars

\* the email of an account created by an earlier signup is turned down
C19_Witness ==
    /\ resp.op = "signup"
    /\ resp.status = UserExistsError
    /\ Registered(auth.username) \ DOMAIN Population # {}

(* ------------------------ properties: SpecGate ------------------------- *)
\* credentials that are missing, malformed or invalid: no header, another
\* scheme, a parameter that is not a JWT or is signed with another key
BadCredentials(authorization) ==
    \/ authorization = NoHeader
    \/ authorization.scheme # "Bearer"
    \/ authorization.param.key # secret_key

\* C16: a protected call with missing, malformed or invalid credentials is
\* answered 401 (never 403, 400 or 404), whoever the token names and whatever
\* the arguments are, and changes nothing.
C16_BadCredentialsStopAtTheGate ==
    [][(resp'.op \in ProtectedOps /\ BadCredentials(auth'.authorization))
        => /\ resp'.status = UnauthorizedError
           /\ auth'.status = UnauthorizedError
           /\ auth'.headers = WWWAuthenticate
           /\ auth'.user = NoId
           /\ UNCHANGED <<users, patientdoctor, notes>>]_vars

\* a token of another key naming a doctor, on an assign with an empty list
C16_Witness ==
    /\ resp.op = "assign_doctors"
    /\ resp.doctor_ids = <<>>
    /\ resp.status = UnauthorizedError
    /\ auth.authorization = Bearer(Forged)
    /\ patientdoctor # EmptyBag

\* C17: a protected call whose token is signed with the key and not expired
\* is answered 401, not 404, when its subject is no user, and 401 when the
\* subject or the email claim is missing; nothing changes.
C17_UnknownSubjectIsUnauthorized ==
    [][(/\ resp'.op \in ProtectedOps
        /\ auth'.authorization.scheme = "Bearer"
        /\ auth'.authorization.param.key = secret_key
        /\ auth'.authorization.param.exp > now
        /\ \/ auth'.authorization.param.sub \notin DOMAIN users
           \/ auth'.authorization.param.email = NoId)
        => /\ resp'.status = UnauthorizedError
           /\ auth'.status = UnauthorizedError
           /\ UNCHANGED <<users, patientdoctor, notes>>]_vars

\* a signed token of a subject that is no user asks for a note that exists
C17_Witness ==
    /\ resp.op = "get_note"
    /\ resp.status = UnauthorizedError
    /\ auth.authorization = Bearer(Orphan)
    /\ get_by_id(notes, resp.note_id) # {}

(* -------------------- properties: SpecNotes, continued ------------------ *)
\* C30: reading notes does not depend on the ledger and the ledger calls never
\* touch the notes: get_note answers the doctor who wrote a note and the
\* patient it is about, list_notes shows an actor every note of theirs, with
\* or without the row of the pair in the ledger, and no assign or remove
\* creates, alters or deletes a note.
C30_NotesOutliveTheLedgerRow ==
    [][/\ IsLedgerCall(resp') => notes' = notes
       /\ resp'.op = "get_note"
            => \A i \in 1..Len(notes) :
                    (/\ notes[i].id = resp'.note_id
                     /\ resp'.actor \in {notes[i].doctor_id, notes[i].patient_id})
                        => /\ resp'.status = OK
                           /\ resp'.notes[1].id = notes[i].id
                           /\ resp'.notes[1].content = decrypt(notes[i].encrypted_content)
       /\ (resp'.op = "list_notes" /\ resp'.filter = NoFilter)
            => {resp'.notes[j].id : j \in 1..Len(resp'.notes)}
                    = {notes[i].id : i \in {k \in 1..Len(notes) :
                            resp'.actor \in {notes[k].doctor_id, notes[k].patient_id}}}]_vars

\* after the patient removed the doctor, the doctor lists the note they wrote
\* for that patient
C30_Witness ==
    /\ resp.op = "list_notes"
    /\ Role(resp.actor) = Doctor
    /\ Len(resp.notes) = 1
    /\ resp.notes[1].doctor_id = resp.actor
    /\ patients(patientdoctor, resp.actor) = {}

(* ---------------------- properties: Spec, continued --------------------- *)
\* C21: an assign or a remove by a Patient with an empty doctor_ids list fails
\* with BadRequest ("Doctor IDs list cannot be empty.") and leaves the ledger
\* unchanged.
C21_EmptyListIsBadRequest ==
    [][(/\ IsLedgerCall(resp')
        /\ Role(resp'.actor) = Patient
        /\ resp'.doctor_ids = <<>>)
        => /\ resp'.status = BadRequestError
           /\ resp'.error = EmptyIds
           /\ patientdoctor' = patientdoctor]_vars

\* a patient who has a doctor asked to remove nobody and was refused
C21_Witness ==
    /\ resp.op = "remove_assigned_doctors"
    /\ Role(resp.actor) = Patient
    /\ resp.doctor_ids = <<>>
    /\ resp.status = BadRequestError
    /\ doctors(patientdoctor, resp.actor) # {}

\* C22: list_assigned_doctors answers a Patient only, list_patients a Doctor
\* only, every other role gets Forbidden; a patient p is shown exactly the rows
\* (p, d) of the ledger, a doctor d exactly the rows (p, d) of the ledger, so
\* that p is in d's list exactly when d is in p's list.
C22_ListsShowTheLedger ==
    [][/\ resp'.op = "list_assigned_doctors"
            => IF Role(resp'.actor) = Patient
               THEN /\ resp'.status = OK
                    /\ resp'.rows = {row \in BagToSet(patientdoctor) :
                                        row.patient_id = resp'.actor}
               ELSE resp'.status = ForbiddenActionError /\ resp'.rows = {}
       /\ resp'.op = "list_patients"
            => IF Role(resp'.actor) = Doctor
               THEN /\ resp'.status = OK
                    /\ resp'.rows = {row \in BagToSet(patientdoctor) :
                                        row.doctor_id = resp'.actor}
                    /\ \A p \in PatientIds :
                            (\E row \in resp'.rows : row.patient_id = p)
                                <=> (\E row \in doctors(patientdoctor, p) :
                                        row.doctor_id = resp'.actor)
               ELSE resp'.status = ForbiddenActionError /\ resp'.rows = {}]_vars

\* a doctor with two patients listed them while the other doctor has a patient
C22_Witness ==
    /\ resp.op = "list_patients"
    /\ resp.status = OK
    /\ {row.patient_id : row \in resp.rows} = PatientIds
    /\ \E row \in BagToSet(patientdoctor) : row.doctor_id # resp.actor

\* C24: a (patient, doctor) pair is absent or assigned (no row or one row); it
\* goes from absent to assigned only by a successful assign of that patient
\* naming that doctor and from assigned to absent only by a successful remove
\* of that patient naming that doctor.  Removing the doctors an assign added
\* gives back the ledger as it was before the assign, and assigning them once
\* more succeeds.
C24_PairsMoveByAssignAndRemove ==
    [][/\ patientdoctor' # patientdoctor
            => \A row \in BagToSet(patientdoctor) \cup BagToSet(patientdoctor') :
            LET p == row.patient_id
                d == row.doctor_id
                before == RowCount(patientdoctor, p, d)
                after == RowCount(patientdoctor', p, d)
            IN  /\ after \in {0, 1}
                /\ (before = 0 /\ after = 1)
                        => /\ resp'.op = "assign_doctors" /\ resp'.status = Created
                           /\ resp'.actor = p /\ d \in Range(resp'.doctor_ids)
                /\ (before = 1 /\ after = 0)
                        => /\ resp'.op = "remove_assigned_doctors" /\ resp'.status = OK
                           /\ resp'.actor = p /\ d \in Range(resp'.doctor_ids)
       /\ (resp'.op = "assign_doctors" /\ resp'.status = Created)
            => LET added == {row.doctor_id : row \in resp'.rows}
                   ids == SelectSeq(resp'.doctor_ids, LAMBDA id : id \in added)
                   removed == delete(patientdoctor', resp'.actor, ids)
                   again == create(removed.table, users, resp'.actor, ids)
               IN  /\ removed.status = OK
                   /\ removed.table = patientdoctor
                   /\ again.status = Created
                   /\ again.table = patientdoctor']_vars

\* a patient removed one of their two doctors while another patient keeps
\* theirs
C24_Witness ==
    /\ resp.op = "remove_assigned_doctors"
    /\ resp.status = OK
    /\ Cardinality(resp.rows) = 1
    /\ Cardinality(doctors(patientdoctor, resp.actor)) = 1
    /\ \E row \in BagToSet(patientdoctor) : row.patient_id # resp.actor

(* -------------------- properties: SpecConc, continued ------------------- *)
\* C23: at the moment a note is committed its doctor_id is the authenticated
\* actor, a Doctor, and the pair (note.patient_id, note.doctor_id) is in the
\* ledger, also when the patient's remove of that doctor runs concurrently
\* with the creation of the note.
C23_NoteCommittedForAssignedPatient ==
    [][notes' # notes =>
        LET note == notes'[Len(notes')]
        IN  /\ \E r \in Requests :
                    /\ pc[r] = "save" /\ pc'[r] = "done"
                    /\ note.doctor_id = req[r].actor
            /\ Role(note.doctor_id) = Doctor
            /\ get_by_patient_and_doctor(patientdoctor, note.patient_id,
                                         note.doctor_id) # {}]_vars

(* -------------------- properties: SpecAuth, continued ------------------- *)
\* C25: every row an assign creates carries the time of that assign call as
\* its assigned_at, so that rows created at different times carry different
\* timestamps, ordered as the calls were.
C25_AssignedAtIsTheCallTime ==
    [][(resp'.op = "assign_doctors" /\ resp'.status = Created)
        => \A row \in resp'.rows : row.assigned_at = now]_vars

\* C28: every row of the ledger names as doctor_id a user whose role is Doctor
\* and as patient_id a user whose role is Patient, the first by the validation
\* of the ids and the second by the gate on the caller alone; and no operation
\* changes the role of a user.
C28_RowsJoinAPatientAndADoctor ==
    [][/\ \A row \in BagToSet(patientdoctor') :
            /\ row.doctor_id \in DOMAIN users' /\ users'[row.doctor_id].role = Doctor
            /\ row.patient_id \in DOMAIN users' /\ users'[row.patient_id].role = Patient
       /\ \A id \in DOMAIN users :
            id \in DOMAIN users' /\ users'[id].role = users[id].role
       /\ (resp'.op = "assign_doctors" /\ resp'.status = Created)
            => /\ auth'.user = resp'.actor
               /\ users[resp'.actor].role = Patient
               /\ \A row \in resp'.rows :
                    row.patient_id = resp'.actor /\ users[row.doctor_id].role = Doctor]_vars

\* a patient who signed up after the start has assigned a doctor, next to
\* the row of another patient
C28_Witness ==
    /\ resp.op = "assign_doctors"
    /\ resp.status = Created
    /\ resp.actor \in NewIds
    /\ \E row \in BagToSet(patientdoctor) : row.patient_id = resp.actor
    /\ \E row \in BagToSet(patientdoctor) : row.patient_id # resp.actor

\* C29: an assign or a remove of Patient p inserts or deletes only rows with
\* patient_id = p, p being the user the credentials of the request resolve
\* to; the rows of every other patient stay as they are, and a row is deleted
\* only by a remove of its own patient.
C29_OnlyTheOwnersRowsMove ==
    [][\A row \in BagToSet(patientdoctor) \cup BagToSet(patientdoctor') :
            CopiesIn(row, patientdoctor') # CopiesIn(row, patientdoctor)
                => /\ auth'.status = OK
                   /\ auth'.user = row.patient_id
                   /\ resp'.actor = row.patient_id
                   /\ users[row.patient_id].role = Patient
                   /\ resp'.op = IF BagIn(row, patientdoctor') THEN "assign_doctors"
                                 ELSE "remove_assigned_doctors"]_vars

\* a patient removed a doctor and the row of another patient with that doctor
\* is still there
C29_Witness ==
    /\ resp.op = "remove_assigned_doctors"
    /\ resp.status = OK
    /\ doctors(patientdoctor, resp.actor) = {}
    /\ \E row \in BagToSet(patientdoctor) :
            row.patient_id # resp.actor /\ row.doctor_id \in Range(resp.doctor_ids)

(* ------------------------ properties: SpecPage ------------------------- *)
\* C26: list_notes returns every note in the actor's scope, none omitted
\* whatever their number: for a Doctor every note with doctor_id = actor (and
\* patient_id = the filter when supplied), for a Patient every note with
\* patient_id = actor (and doctor_id = the filter when supplied).
C26_ListOmitsNothing ==
    resp.op = "list_notes"
        => LET InScope(n) ==
                   IF Role(resp.actor) = Doctor
                   THEN /\ n.doctor_id = resp.actor
                        /\ resp.filter.patient_id # NoId => n.patient_id = resp.filter.patient_id
                   ELSE /\ n.patient_id = resp.actor
                        /\ resp.filter.doctor_id # NoId => n.doctor_id = resp.filter.doctor_id
           IN  \A i \in 1..Len(notes) :
                    InScope(notes[i])
                        => \E j \in 1..Len(resp.notes) : resp.notes[j].id = notes[i].id

(* ------------------------ properties: SpecSave ------------------------- *)
\* C27: a save without new content leaves a stored value that already looks
\* encrypted unchanged and encrypts a stored plaintext exactly once; however
\* often a note is saved it is never encrypted twice, and the content read
\* back is the original plaintext.
C27_SaveEncryptsOnce ==
    [][(resp'.op \in {"Note.save(created=True)", "Note.save"} /\ resp'.status = Created)
        => LET before == resp'.content
               i == IF resp'.op = "Note.save" THEN resp'.note_id ELSE Len(notes')
               after == notes'[i].encrypted_content
           IN  /\ before.layers # <<>>
                    => /\ after = before
                       /\ resp'.notes[1].content = [before EXCEPT !.layers = Tail(@)]
               /\ before.layers = <<>>
                    => /\ after.text = before.text
                       /\ Len(after.layers) = 1
                       /\ resp'.notes[1].content = before
               /\ \A j \in 1..Len(notes') : Len(notes'[j].encrypted_content.layers) = 1
               /\ resp'.op = "Note.save"
                    => decrypt(after) = decrypt(notes[i].encrypted_content)]_vars

\* a note that was built with plaintext was saved once more and reads the same
C27_Witness ==
    /\ resp.op = "Note.save"
    /\ resp.status = Created
    /\ resp.content.layers = <<1>>
    /\ notes[resp.note_id].encrypted_content = resp.content
    /\ resp.notes[1].content = Str("rest")

====
